---------------------------- MODULE Spec2Model ----------------------------
(***************************************************************************)
(* Swarm of friend/enemy agents ("3. Swarm Intelligence").                 *)
(*                                                                         *)
(* agents.py       Agent, ProtectiveAgent1/2, HidingAgent1/2               *)
(* environment.py  Environment (reset, step, the two assignment methods)   *)
(* agent_creator.py the four creators                                      *)
(*                                                                         *)
(* Numbers.  The code computes in float64.  The model computes in exact    *)
(* rational arithmetic: a number is a pair <<n, d>> in lowest terms with   *)
(* d > 0, and <<0, 0>> is NaN (what numpy yields for 0/0 and for a float   *)
(* array built from None).  Rounding of float64 is not modelled.  A square *)
(* root is taken only of rationals that have a rational root: the worlds   *)
(* the environment is reset into lie on one axis, and the inputs of the    *)
(* fixed-offset destination are drawn with a rational friend-enemy         *)
(* distance.                                                               *)
(*                                                                         *)
(* A point is <<x, y>>; Python's None for a point is <<>>; None for a      *)
(* friend/enemy reference is index 0, an agent is its 1-based list index.  *)
(***************************************************************************)
EXTENDS Integers, Sequences, FiniteSets, TLC

(***************************************************************************)
(* Bounds of the model.                                                    *)
(***************************************************************************)
MaxAgents == 3
\* np.random.rand() yields k / RandSteps, k in 0 .. RandSteps-1
RandSteps == 2
\* grid_size is (GridWidth, 0)
GridWidth == 4
\* step_size ranges over -1 .. MaxStepSize
MaxStepSize == 1
\* HidingAgent1Creator's distance ranges over 0 .. MaxDistance
MaxDistance == 1
\* step() calls after a reset(), move() calls on a directly used agent
MaxTicks == 2
\* coordinates of the points the destination computations are tried on
MaxCoord == 2

(***************************************************************************)
(* float arithmetic, exact                                                 *)
(***************************************************************************)
Abs(x) == IF x < 0 THEN -x ELSE x

RECURSIVE GCD(_, _)
GCD(a, b) == IF b = 0 THEN a ELSE GCD(b, a % b)

NaN == <<0, 0>>

IsNaN(a) == a[2] = 0

Q(n, d) ==
    IF d = 0 THEN NaN
    ELSE LET g == GCD(Abs(n), Abs(d))
             s == IF d < 0 THEN -1 ELSE 1
         IN  <<(s * n) \div g, (s * d) \div g>>

R(k) == <<k, 1>>

Zero == R(0)

Add(a, b) == IF IsNaN(a) \/ IsNaN(b) THEN NaN
             ELSE Q(a[1] * b[2] + b[1] * a[2], a[2] * b[2])

Neg(a) == <<-a[1], a[2]>>

Sub(a, b) == Add(a, Neg(b))

Mul(a, b) == IF IsNaN(a) \/ IsNaN(b) THEN NaN
             ELSE Q(a[1] * b[1], a[2] * b[2])

\* 0/0 is nan.  x/0 with x # 0 (numpy: inf) is reached by no division of
\* agents.py: each divisor is tested against 0 or vanishes only with its
\* numerator.
Div(a, b) == IF IsNaN(a) \/ IsNaN(b) \/ b[1] = 0 THEN NaN
             ELSE Q(a[1] * b[2], a[2] * b[1])

\* comparisons with nan are False
Lt(a, b) == ~IsNaN(a) /\ ~IsNaN(b) /\ a[1] * b[2] < b[1] * a[2]

Gt(a, b) == Lt(b, a)

Le(a, b) == ~IsNaN(a) /\ ~IsNaN(b) /\ a[1] * b[2] <= b[1] * a[2]

Eq(a, b) == ~IsNaN(a) /\ ~IsNaN(b) /\ a = b

ISqrt(n) == CHOOSE r \in 0..n : r * r = n

Sqrt(a) == IF IsNaN(a) THEN NaN ELSE <<ISqrt(a[1]), ISqrt(a[2])>>

\* Python's builtin min(a, b): b if b < a else a
PyMin(a, b) == IF Lt(b, a) THEN b ELSE a

(***************************************************************************)
(* numpy vectors of two components                                         *)
(***************************************************************************)
None == <<>>

VSub(v, u) == <<Sub(v[1], u[1]), Sub(v[2], u[2])>>

VAdd(v, u) == <<Add(v[1], u[1]), Add(v[2], u[2])>>

VScale(k, v) == <<Mul(k, v[1]), Mul(k, v[2])>>

VDiv(v, k) == <<Div(v[1], k), Div(v[2], k)>>

\* the squared 2-norm; (np.linalg.norm(v, 2))**2 in exact arithmetic
Norm2(v) == Add(Mul(v[1], v[1]), Mul(v[2], v[2]))

\* np.linalg.norm(v, 2)
Norm(v) == Sqrt(Norm2(v))

\* np.array(p, dtype=float) of a point or of None: None becomes the
\* 0-dimensional array nan, which broadcasts against a 2-vector
AsArray(p) == IF p = None THEN <<NaN, NaN>> ELSE p

(***************************************************************************)
(* agents.py                                                               *)
(*                                                                         *)
(* An agent is a record; a method that can raise returns                   *)
(* [raises |-> the exception's name or "none", value |-> its result].      *)
(***************************************************************************)
Kinds == {"ProtectiveAgent1", "ProtectiveAgent2", "HidingAgent1", "HidingAgent2"}

Ret(v) == [raises |-> "none", value |-> v]

Raise(e) == [raises |-> e, value |-> None]

\* Agent.__init__ (and HidingAgent1.__init__, which adds distance; the other
\* classes have no such attribute and carry Zero)
NewAgent(kind, x, y, step_size, distance) ==
    [kind |-> kind,
     position |-> <<x, y>>,
     step_size |-> step_size,
     distance |-> distance,
     friend |-> 0,
     enemy |-> 0,
     friend_position |-> None,
     enemy_position |-> None]

\* Agent._calculate_point_on_vector
CalculatePointOnVector(position, step_size, destination) ==
    LET v == position
        u == destination
        n0 == VSub(v, u)
        n_magnitude == Norm(n0)
        n == IF Eq(n_magnitude, Zero) THEN <<Zero, Zero>>
             ELSE VDiv(n0, n_magnitude)
        distance == PyMin(n_magnitude, step_size)
    IN  VSub(v, VScale(distance, n))

\* ProtectiveAgent1._get_destination: None[0] is a TypeError
ProtectiveAgent1_get_destination(a) ==
    IF a.friend_position = None \/ a.enemy_position = None
    THEN Raise("TypeError")
    ELSE Ret(<<Div(Add(a.friend_position[1], a.enemy_position[1]), R(2)),
               Div(Add(a.friend_position[2], a.enemy_position[2]), R(2))>>)

\* the obtuse tests shared by ProtectiveAgent2 and HidingAgent2
BehindFriend(f, e, p) ==
    Gt(Norm2(VSub(e, p)), Add(Norm2(VSub(f, e)), Norm2(VSub(f, p))))

BehindEnemy(f, e, p) ==
    Gt(Norm2(VSub(f, p)), Add(Norm2(VSub(f, e)), Norm2(VSub(e, p))))

\* ProtectiveAgent2._get_destination, the branch "between friend and enemy"
ProtectiveAgent2Intersection(f, e, p) ==
    IF Eq(Sub(e[1], f[1]), Zero) THEN <<e[1], p[2]>>
    ELSE IF Eq(Sub(e[2], f[2]), Zero) THEN <<p[2], e[2]>>
    ELSE LET m1 == Div(Sub(e[2], f[2]), Sub(e[1], f[1]))
             m2 == Div(R(-1), m1)
             b1 == Sub(e[2], Mul(m1, e[1]))
             b2 == Sub(p[2], Mul(m2, p[1]))
             x == Div(Sub(b1, b2), Sub(m2, m1))
             y == Add(Mul(m1, x), b1)
         IN  <<x, y>>

\* ProtectiveAgent2._get_destination.  With both snapshots None f - e is
\* 0-dimensional and np.linalg.norm(., 2) raises ValueError; with one of them
\* None the distances are nan, both tests are False and e[0] - f[0] indexes a
\* 0-dimensional array (IndexError).
ProtectiveAgent2_get_destination(a) ==
    LET f == AsArray(a.friend_position)
        e == AsArray(a.enemy_position)
        p == a.position
    IN  IF a.friend_position = None /\ a.enemy_position = None
        THEN Raise("ValueError")
        ELSE IF BehindFriend(f, e, p) THEN Ret(f)
        ELSE IF BehindEnemy(f, e, p) THEN Ret(e)
        ELSE IF a.friend_position = None \/ a.enemy_position = None
        THEN Raise("IndexError")
        ELSE Ret(ProtectiveAgent2Intersection(f, e, p))

\* HidingAgent1._get_destination with u pointing from the friend to the
\* enemy and no second candidate
HidingAgent1TowardsEnemy(a) ==
    LET f == AsArray(a.friend_position)
        e == AsArray(a.enemy_position)
        v == VSub(e, f)
        u == VDiv(v, Norm(v))
    IN  IF a.friend_position = None /\ a.enemy_position = None
        THEN Raise("ValueError")
        ELSE Ret(VAdd(f, VScale(a.distance, u)))

\* HidingAgent1._get_destination.  With both snapshots None v is
\* 0-dimensional and np.linalg.norm(v, 2) raises ValueError; with one of them
\* None every component is nan and nothing raises.
HidingAgent1_get_destination(a) ==
    LET f == AsArray(a.friend_position)
        e == AsArray(a.enemy_position)
        v == VSub(f, e)
        u == VDiv(v, Norm(v))
        point == VAdd(f, VScale(a.distance, u))
        d_fe == Norm(VSub(f, e))
        d_ep == Norm(VSub(e, point))
    IN  IF a.friend_position = None /\ a.enemy_position = None
        THEN Raise("ValueError")
        ELSE IF Gt(d_fe, d_ep) THEN Ret(VSub(f, VScale(a.distance, u)))
        ELSE Ret(point)

\* HidingAgent2._get_destination, the branch "behind friend"
HidingAgent2Intersection(f, e, p) ==
    IF Eq(Sub(e[1], f[1]), Zero) THEN <<e[1], p[2]>>
    ELSE IF Eq(Sub(e[2], f[2]), Zero) THEN <<p[2], e[2]>>
    ELSE LET m1 == Div(Sub(e[2], f[2]), Sub(e[1], f[1]))
             m2 == Div(R(-1), m1)
             b1 == Sub(e[2], Mul(m1, e[1]))
             b2 == Sub(p[2], Mul(m2, p[1]))
             x == Div(Sub(b1, b2), Sub(m2, m1))
             y == Add(Mul(m1, x), b1)
         IN  <<x, y>>

\* HidingAgent2._get_destination.  Both snapshots None: ValueError as above.
\* One of them None: both tests are False and point = f, which is a
\* 2-vector when the friend's snapshot is set and 0-dimensional (point[0] is
\* an IndexError) when it is not.
HidingAgent2_get_destination(a) ==
    LET f == AsArray(a.friend_position)
        e == AsArray(a.enemy_position)
        p == a.position
    IN  IF a.friend_position = None /\ a.enemy_position = None
        THEN Raise("ValueError")
        ELSE IF BehindFriend(f, e, p) THEN Ret(HidingAgent2Intersection(f, e, p))
        ELSE IF a.friend_position = None THEN Raise("IndexError")
        ELSE IF BehindEnemy(f, e, p) THEN Ret(f)
        ELSE Ret(f)

\* the virtual call self._get_destination()
GetDestination(a) ==
    CASE a.kind = "ProtectiveAgent1" -> ProtectiveAgent1_get_destination(a)
      [] a.kind = "ProtectiveAgent2" -> ProtectiveAgent2_get_destination(a)
      [] a.kind = "HidingAgent1" -> HidingAgent1_get_destination(a)
      [] a.kind = "HidingAgent2" -> HidingAgent2_get_destination(a)

\* ProtectiveAgent1._get_new_position, inherited by the other three classes
GetNewPosition(a) ==
    LET destination == GetDestination(a)
    IN  IF destination.raises # "none" THEN destination
        ELSE Ret(CalculatePointOnVector(a.position, a.step_size, destination.value))

\* Agent.move: the agent after the call, or the exception
AgentMove(a) ==
    LET new_position == GetNewPosition(a)
    IN  IF new_position.raises # "none" THEN new_position
        ELSE Ret([a EXCEPT !.position = new_position.value])

\* Agent.update_state on agent i of the list: None.position is an
\* AttributeError, raised after friend_position was stored when only the enemy
\* is unset.  The value is the agent as the call leaves it, raised or not.
AgentUpdateState(as, i) ==
    LET a == as[i]
    IN  IF a.friend = 0 THEN [raises |-> "AttributeError", value |-> a]
        ELSE IF a.enemy = 0
        THEN [raises |-> "AttributeError",
              value |-> [a EXCEPT !.friend_position = as[a.friend].position]]
        ELSE Ret([a EXCEPT !.friend_position = as[a.friend].position,
                           !.enemy_position = as[a.enemy].position])

(***************************************************************************)
(* agent_creator.py: a creator is its class and, for HidingAgent1Creator,  *)
(* its distance                                                            *)
(***************************************************************************)
Creators ==
    {[kind |-> k, distance |-> Zero] : k \in Kinds \ {"HidingAgent1"}}
    \cup {[kind |-> "HidingAgent1", distance |-> R(d)] : d \in 0..MaxDistance}

\* <Creator>.create_agent(x=x, y=y, step_size=step_size)
CreateAgent(creator, x, y, step_size) ==
    NewAgent(creator.kind, x, y, step_size, creator.distance)

(***************************************************************************)
(* environment.py                                                          *)
(***************************************************************************)
VARIABLES
    n_agents,        \* Environment.n_agents
    step_size,       \* Environment.step_size
    grid_size,       \* Environment.grid_size
    agent_creator,   \* Environment.agent_creator
    agents,          \* Environment.agents, a sequence of agent records
    pc,              \* where step() is: "idle", "perceive" (pass 1), "move" (pass 2)
    done,            \* the agents the running pass of step() has visited
    last,            \* the latest public call: [op, arg, agent, raises]
    pre,             \* agents as they were when the latest step() or agent call began
    destination,     \* what the latest _get_destination call returned
    ticks            \* step() or move() calls since the latest reset / construction

vars == <<n_agents, step_size, grid_size, agent_creator, agents, pc, done,
          last, pre, destination, ticks>>

Call(op, arg, agent, raises) ==
    [op |-> op, arg |-> arg, agent |-> agent, raises |-> raises]

StepSizes == {R(k) : k \in -1..MaxStepSize}

\* np.random.rand(): a float in [0, 1)
Rands == {Q(k, RandSteps) : k \in 0..(RandSteps - 1)}

\* the grid_size the worlds are constructed with
GridSize == <<R(GridWidth), Zero>>

\* the positions reset() can draw for an agent:
\* x = np.random.rand() * grid_size[0], y = np.random.rand() * grid_size[1]
StartingPositions ==
    {<<Mul(rx, GridSize[1]), Mul(ry, GridSize[2])>> : rx \in Rands, ry \in Rands}

\* the values reset() is called with: the two its docstring names and the
\* one its code tests for besides "random"
AssignmentTypes == {"random", "neighbour", "neighbours"}

\* Environment.__init__
Init ==
    /\ n_agents \in 0..MaxAgents
    /\ step_size \in StepSizes
    /\ grid_size = GridSize
    /\ agent_creator \in Creators
    /\ agents = <<>>
    /\ pc = "idle"
    /\ done = {}
    /\ last = Call("__init__", "", 0, "none")
    /\ pre = <<>>
    /\ destination = Raise("none")
    /\ ticks = 0

\* Python's list[idx] on a list of n elements, as a 1-based index; 0 stands
\* for IndexError
PyIndex(n, idx) ==
    IF 0 <= idx /\ idx < n THEN idx + 1
    ELSE IF -n <= idx /\ idx < 0 THEN n + idx + 1
    ELSE 0

\* random.sample(other_agents, 2) for agent i (0-based) of n: the ordered
\* pairs of distinct 0-based indices other than i.  With fewer than two other
\* agents the sample is larger than the population, a ValueError.
Sample2(i, n) ==
    {s \in (0..(n - 1)) \X (0..(n - 1)) : s[1] # s[2] /\ s[1] # i /\ s[2] # i}

\* Environment.__random_agent_assignment with the samples drawn
RECURSIVE RandomLoop(_, _, _, _)
RandomLoop(as, n, sample, i) ==
    IF i >= n THEN Ret(as)
    ELSE IF n - 1 < 2 THEN [raises |-> "ValueError", value |-> as]
    ELSE LET fr == PyIndex(Len(as), sample[i + 1][1])
             en == PyIndex(Len(as), sample[i + 1][2])
         IN  RandomLoop([as EXCEPT ![i + 1].friend = fr, ![i + 1].enemy = en],
                        n, sample, i + 1)

RandomAgentAssignment(as, n, sample) == RandomLoop(as, n, sample, 0)

\* the draws random.sample can make for the agents of a list of n, one pair
\* per agent (none is made when the first call raises)
SamplesOf ==
    [n \in 0..MaxAgents |->
        IF n < 3 THEN {[i \in 1..n |-> <<0, 0>>]}
        ELSE {s \in [1..n -> (0..(n - 1)) \X (0..(n - 1))] :
                \A i \in 1..n : s[i] \in Sample2(i - 1, n)}]

Samples(n) == SamplesOf[n]

\* NeighbourIdx without the wrap of the last agent's enemy to index 0
NeighbourIdxNoWrap(i, n) ==
    IF i = 0 THEN <<-1, i + 1>>
    ELSE IF i = n - 1 THEN <<-2, -1>>
    ELSE <<i - 1, i + 1>>

\* friend_idx, enemy_idx of agent i (0-based) in
\* Environment.__neighbours_agent_assignment
NeighbourIdx(i, n) ==
    IF i = 0 THEN <<-1, i + 1>>
    ELSE IF i = n - 1 THEN <<-2, 0>>
    ELSE <<i - 1, i + 1>>

\* Environment.__neighbours_agent_assignment
RECURSIVE NeighboursLoop(_, _, _)
NeighboursLoop(as, n, i) ==
    IF i >= n THEN Ret(as)
    ELSE LET fr == PyIndex(Len(as), NeighbourIdx(i, n)[1])
             en == PyIndex(Len(as), NeighbourIdx(i, n)[2])
         IN  IF fr = 0 THEN [raises |-> "IndexError", value |-> as]
             ELSE IF en = 0
             THEN [raises |-> "IndexError",
                   value |-> [as EXCEPT ![i + 1].friend = fr]]
             ELSE NeighboursLoop(
                      [as EXCEPT ![i + 1].friend = fr, ![i + 1].enemy = en],
                      n, i + 1)

NeighboursAgentAssignment(as, n) == NeighboursLoop(as, n, 0)

\* the dispatch at the end of Environment.reset
Assign(assignment_type, as, n, sample) ==
    IF assignment_type = "random" THEN RandomAgentAssignment(as, n, sample)
    ELSE IF assignment_type = "neighbours" THEN NeighboursAgentAssignment(as, n)
    ELSE Ret(as)

\* the body of Environment.reset(assignment_type) in a world of n agents:
\* the list of agents created at the positions xy, then the assignment
ResetBody(creator, size, n, assignment_type, xy, sample) ==
    LET created == [i \in 1..n |->
                       CreateAgent(creator, xy[i][1], xy[i][2], size)]
    IN  Assign(assignment_type, created, n, sample)

\* every outcome of Environment.reset, per world and assignment_type, over
\* the draws of np.random.rand and random.sample
ResetOutcomes ==
    [creator \in Creators, size \in StepSizes, n \in 0..MaxAgents,
     assignment_type \in AssignmentTypes |->
        {ResetBody(creator, size, n, assignment_type, xy, sample) :
            xy \in [1..n -> StartingPositions],
            sample \in IF assignment_type = "random" THEN Samples(n)
                       ELSE {<<>>}}]

\* Environment.reset(assignment_type)
Reset(assignment_type) ==
    /\ pc = "idle"
    /\ grid_size = GridSize
    /\ \E assigned \in ResetOutcomes[agent_creator, step_size, n_agents,
                                      assignment_type] :
         /\ agents' = assigned.value
         /\ last' = Call("reset", assignment_type, 0, assigned.raises)
    /\ pre' = <<>>
    /\ ticks' = 0
    /\ UNCHANGED <<n_agents, step_size, grid_size, agent_creator, pc, done,
                   destination>>

All == 1..Len(agents)

\* Environment.step is called: pass 1 begins (an empty list ends the call)
StepCall ==
    /\ pc = "idle"
    /\ ticks < MaxTicks
    /\ pc' = IF All = {} THEN "idle" ELSE "perceive"
    /\ done' = {}
    /\ last' = Call("step", "", 0, "none")
    /\ pre' = agents
    /\ ticks' = ticks + 1
    /\ UNCHANGED <<n_agents, step_size, grid_size, agent_creator, agents,
                   destination>>

\* pass 1 of Environment.step visits agent i: agent.update_state().  The
\* visits of a pass are taken in any order (the code takes list order).  An
\* exception ends step().
StepUpdateState(i) ==
    /\ pc = "perceive"
    /\ i \in All \ done
    /\ \E r \in {AgentUpdateState(agents, i)} :
           /\ agents' = [agents EXCEPT ![i] = r.value]
           /\ IF r.raises # "none"
              THEN /\ pc' = "idle"
                   /\ done' = {}
                   /\ last' = Call("step", "", i, r.raises)
              ELSE /\ pc' = IF done \cup {i} = All THEN "move" ELSE "perceive"
                   /\ done' = IF done \cup {i} = All THEN {} ELSE done \cup {i}
                   /\ last' = last
    /\ UNCHANGED <<n_agents, step_size, grid_size, agent_creator, pre,
                   destination, ticks>>

\* StepMove with the agent perceiving again right before it moves, so that it
\* reads the positions the earlier visits of pass 2 wrote
StepMoveLive(i) ==
    /\ pc = "move"
    /\ i \in All \ done
    /\ \E r \in {AgentMove(AgentUpdateState(agents, i).value)} :
           IF r.raises # "none"
           THEN /\ agents' = agents
                /\ pc' = "idle"
                /\ done' = {}
                /\ last' = Call("step", "", i, r.raises)
           ELSE /\ agents' = [agents EXCEPT ![i] = r.value]
                /\ pc' = IF done \cup {i} = All THEN "idle" ELSE "move"
                /\ done' = IF done \cup {i} = All THEN {} ELSE done \cup {i}
                /\ last' = last
    /\ UNCHANGED <<n_agents, step_size, grid_size, agent_creator, pre,
                   destination, ticks>>

\* pass 2 of Environment.step visits agent i: agent.move(); after the last
\* visit step() returns
StepMove(i) ==
    /\ pc = "move"
    /\ i \in All \ done
    /\ \E r \in {AgentMove(agents[i])} :
           IF r.raises # "none"
           THEN /\ agents' = agents
                /\ pc' = "idle"
                /\ done' = {}
                /\ last' = Call("step", "", i, r.raises)
           ELSE /\ agents' = [agents EXCEPT ![i] = r.value]
                /\ pc' = IF done \cup {i} = All THEN "idle" ELSE "move"
                /\ done' = IF done \cup {i} = All THEN {} ELSE done \cup {i}
                /\ last' = last
    /\ UNCHANGED <<n_agents, step_size, grid_size, agent_creator, pre,
                   destination, ticks>>

Next ==
    \/ \E t \in AssignmentTypes : Reset(t)
    \/ StepCall
    \/ \E i \in 1..MaxAgents : StepUpdateState(i)
    \/ \E i \in 1..MaxAgents : StepMove(i)

Spec == Init /\ [][Next]_vars

(***************************************************************************)
(* The agent classes used directly: agents are constructed on the x axis,  *)
(* and a client wires and drives the first of them through its public      *)
(* attributes and methods (friend, enemy, update_state, move).             *)
(***************************************************************************)
InitAgent ==
    /\ n_agents = MaxAgents
    /\ step_size \in StepSizes
    /\ grid_size = GridSize
    /\ agent_creator \in Creators
    /\ \E xy \in [1..MaxAgents -> StartingPositions] :
         agents = [i \in 1..MaxAgents |->
                      CreateAgent(agent_creator, xy[i][1], xy[i][2], step_size)]
    /\ pc = "idle"
    /\ done = {}
    /\ last = Call("__init__", "", 0, "none")
    /\ pre = <<>>
    /\ destination = Raise("none")
    /\ ticks = 0

\* agents[0].friend = agents[j - 1], the assignment environment.py:47 and :61
\* make; the client assigns each reference once
SetFriend(j) ==
    /\ j \in All
    /\ agents[1].friend = 0
    /\ agents' = [agents EXCEPT ![1].friend = j]
    /\ last' = Call("friend", "", 1, "none")
    /\ pre' = agents
    /\ UNCHANGED <<n_agents, step_size, grid_size, agent_creator, pc, done,
                   destination, ticks>>

\* agents[0].enemy = agents[j - 1]
SetEnemy(j) ==
    /\ j \in All
    /\ agents[1].enemy = 0
    /\ agents' = [agents EXCEPT ![1].enemy = j]
    /\ last' = Call("enemy", "", 1, "none")
    /\ pre' = agents
    /\ UNCHANGED <<n_agents, step_size, grid_size, agent_creator, pc, done,
                   destination, ticks>>

\* agents[0].update_state()
CallUpdateState ==
    /\ \E r \in {AgentUpdateState(agents, 1)} :
           /\ agents' = [agents EXCEPT ![1] = r.value]
           /\ last' = Call("update_state", "", 1, r.raises)
    /\ pre' = agents
    /\ UNCHANGED <<n_agents, step_size, grid_size, agent_creator, pc, done,
                   destination, ticks>>

\* agents[0].move()
CallMove ==
    /\ ticks < MaxTicks
    /\ \E r \in {AgentMove(agents[1])} :
           /\ agents' = IF r.raises # "none" THEN agents
                        ELSE [agents EXCEPT ![1] = r.value]
           /\ last' = Call("move", "", 1, r.raises)
    /\ destination' = GetDestination(agents[1])
    /\ pre' = agents
    /\ ticks' = ticks + 1
    /\ UNCHANGED <<n_agents, step_size, grid_size, agent_creator, pc, done>>

NextAgent ==
    \/ \E j \in 1..MaxAgents : SetFriend(j)
    \/ \E j \in 1..MaxAgents : SetEnemy(j)
    \/ CallUpdateState
    \/ CallMove

SpecAgent == InitAgent /\ [][NextAgent]_vars

(***************************************************************************)
(* _get_destination as a function of own position P and the snapshots F,   *)
(* E: the first agent stands at P, wired to a friend at F and an enemy at   *)
(* E, after its update_state().  F and E have coordinates 0 .. MaxCoord, P  *)
(* one more on each side.  For HidingAgent1, whose destination takes the    *)
(* norm of F - E, that norm is rational.                                    *)
(***************************************************************************)
Coords == {R(k) : k \in 0..MaxCoord}

WideCoords == {R(k) : k \in -1..(MaxCoord + 1)}

HasRoot(a) == /\ \E r \in 0..a[1] : r * r = a[1]
              /\ \E r \in 0..a[2] : r * r = a[2]

\* the vectors from a friend to an enemy farther away than the grid of Coords
\* reaches, on a slanted line (a 3-4-5 triangle, norm 5) or along the x axis
\* (norm 10); a HidingAgent1 with distance 3.0 is tried on them
FarOffsets ==
    {<<R(a), R(b)>> : a \in {-4, 4}, b \in {-3, 3}}
    \cup {<<R(a), R(b)>> : a \in {-3, 3}, b \in {-4, 4}}
    \cup {<<R(10), Zero>>, <<R(-10), Zero>>}

InitGeom ==
    /\ n_agents = 3
    /\ step_size = R(MaxStepSize)
    /\ grid_size = <<R(GridWidth), R(GridWidth)>>
    /\ \/ /\ agent_creator \in Creators
          /\ \E P \in WideCoords \X WideCoords, F \in Coords \X Coords,
                E \in Coords \X Coords :
               /\ agent_creator.kind = "HidingAgent1"
                     => HasRoot(Norm2(VSub(F, E)))
               /\ agents =
                    <<[CreateAgent(agent_creator, P[1], P[2], step_size)
                          EXCEPT !.friend = 2, !.enemy = 3,
                                 !.friend_position = F, !.enemy_position = E],
                      CreateAgent(agent_creator, F[1], F[2], step_size),
                      CreateAgent(agent_creator, E[1], E[2], step_size)>>
       \/ /\ agent_creator = [kind |-> "HidingAgent1", distance |-> R(3)]
          /\ \E P \in Coords \X Coords, F \in Coords \X Coords,
                o \in FarOffsets :
               agents =
                    <<[CreateAgent(agent_creator, P[1], P[2], step_size)
                          EXCEPT !.friend = 2, !.enemy = 3,
                                 !.friend_position = F,
                                 !.enemy_position = VAdd(F, o)],
                      CreateAgent(agent_creator, F[1], F[2], step_size),
                      CreateAgent(agent_creator, VAdd(F, o)[1], VAdd(F, o)[2],
                                  step_size)>>
    /\ pc = "idle"
    /\ done = {}
    /\ last = Call("update_state", "", 1, "none")
    /\ pre = <<>>
    /\ destination = Raise("none")
    /\ ticks = 0

\* agents[0]._get_destination()
CallGetDestination ==
    /\ last.op = "update_state"
    /\ destination' = GetDestination(agents[1])
    /\ last' = Call("_get_destination", "", 1, GetDestination(agents[1]).raises)
    /\ UNCHANGED <<n_agents, step_size, grid_size, agent_creator, agents, pc,
                   done, pre, ticks>>

NextGeom == CallGetDestination

SpecGeom == InitGeom /\ [][NextGeom]_vars

(***************************************************************************)
(* Properties                                                              *)
(***************************************************************************)
\* the latest public call was op and it returned without an exception
Returned(op) == pc = "idle" /\ last.op = op /\ last.raises = "none"

\* agent i of the list as, perceiving the positions of the list as
Perceiving(as, i) ==
    [as[i] EXCEPT !.friend_position = as[as[i].friend].position,
                  !.enemy_position = as[as[i].enemy].position]

\* the position move() gives agent i when every position it reads is the
\* one of the list as
MovedFrom(as, i) == AgentMove(Perceiving(as, i)).value.position

\* C1: within a tick of Environment.step(), whatever the order of the visits
\* of pass 1 and of pass 2, every snapshot pass 1 has stored is a position of
\* the beginning of the tick, every agent pass 2 has visited stands where its
\* move() puts it from the positions of the beginning of the tick alone, and
\* every agent not yet visited still stands where it stood; so the positions
\* step() returns with do not depend on the order of the visits.
C1_Simultaneity ==
    /\ pc = "perceive" =>
         \A i \in done : agents[i] = Perceiving(pre, i)
    /\ pc = "move" =>
         \A i \in All :
            /\ agents[i].friend_position = pre[agents[i].friend].position
            /\ agents[i].enemy_position = pre[agents[i].enemy].position
            /\ agents[i].position =
                 IF i \in done THEN MovedFrom(pre, i) ELSE pre[i].position
    /\ Returned("step") =>
         \A i \in All : agents[i].position = MovedFrom(pre, i)

\* C1 witness: step() has returned and some agent moved whose friend moved
\* in the same tick
C1_Witness ==
    /\ Returned("step")
    /\ \E i \in All :
         /\ agents[i].friend # agents[i].enemy
         /\ agents[i].position # pre[i].position
         /\ agents[agents[i].friend].position # pre[agents[i].friend].position

\* the previous and the next agent of agent i (1-based) in a list of n
Previous(i, n) == IF i = 1 THEN n ELSE i - 1

Following(i, n) == IF i = n THEN 1 ELSE i + 1

WellRelated(i) ==
    /\ agents[i].friend \in All \ {i}
    /\ agents[i].enemy \in All \ {i}
    /\ agents[i].friend # agents[i].enemy

\* C3: after every reset(assignment_type) that returns normally, for the two
\* types its docstring names ("random", "neighbour"), the list holds n_agents
\* newly created agents and each has its friend and its enemy assigned to a
\* member of the list.
C3_ResetAssigns ==
    (Returned("reset") /\ last.arg \in {"random", "neighbour"})
    => /\ Len(agents) = n_agents
       /\ \A i \in All :
            /\ agents[i].friend_position = None
            /\ agents[i].enemy_position = None
            /\ agents[i].friend \in All
            /\ agents[i].enemy \in All

\* the distance between two points
Dist(p, q) == Norm(VSub(p, q))

\* agent i as it was when its move() of the tick just run began: where it
\* stood at the beginning of the tick, with the snapshot of pass 1
BeforeMove(i) == [agents[i] EXCEPT !.position = pre[i].position]

\* C4: after every tick, every agent is at most step_size away from where
\* it stood before the tick.
C4_StepBound ==
    Returned("step") =>
        \A i \in All :
            Le(Dist(agents[i].position, pre[i].position), agents[i].step_size)

\* C5: after every tick, no agent is farther from the destination it
\* computed in the tick than it was; an agent whose destination was within
\* step_size stands on it, and an agent that stood on its destination has
\* not moved.
C5_NoOvershoot ==
    Returned("step") =>
        \A i \in All :
            LET old == pre[i].position
                new == agents[i].position
                dest == GetDestination(BeforeMove(i)).value
            IN  /\ Le(Dist(new, dest), Dist(old, dest))
                /\ Le(Dist(old, dest), agents[i].step_size) => new = dest
                /\ Eq(Dist(old, dest), Zero) => new = old

\* a point with two numbers for coordinates
WellDefined(p) == p # None /\ ~IsNaN(p[1]) /\ ~IsNaN(p[2])

\* C6: move() of a HidingAgent1 whose friend and enemy snapshots are the
\* same point does not raise, has the friend's position for destination and
\* leaves the agent at a well-defined position, one step toward the friend.
C6_CoincidentSnapshots ==
    (/\ last.op = "move"
     /\ pre[1].kind = "HidingAgent1"
     /\ WellDefined(pre[1].friend_position)
     /\ pre[1].friend_position = pre[1].enemy_position)
    => /\ last.raises = "none"
       /\ destination = Ret(pre[1].friend_position)
       /\ WellDefined(agents[1].position)
       /\ agents[1].position =
            CalculatePointOnVector(pre[1].position, pre[1].step_size,
                                   pre[1].friend_position)

\* the parameters the world was constructed with are invalid
InvalidParameters ==
    \/ Le(step_size, Zero)
    \/ agent_creator.kind = "HidingAgent1" /\ Le(agent_creator.distance, Zero)
    \/ n_agents < 3

\* C7: reset("random") and reset("neighbours") of a world constructed with a
\* non-positive step_size, a non-positive distance of HidingAgent1 or fewer
\* than three agents raise, and a reset that returns leaves every agent with
\* a friend and an enemy that differ from it and from each other.
C7_InvalidParametersFail ==
    (last.op = "reset" /\ last.arg \in {"random", "neighbours"})
    => /\ InvalidParameters => last.raises # "none"
       /\ last.raises = "none" => \A i \in All : WellRelated(i)

\* C8: move() on an agent whose snapshot is not populated raises and leaves
\* the agent where it stood, and so does update_state() on an agent whose
\* friend or enemy is not assigned.
C8_PreconditionsFail ==
    /\ (/\ last.op = "move"
        /\ \/ pre[1].friend_position = None
           \/ pre[1].enemy_position = None)
       => /\ last.raises # "none"
          /\ agents[1].position = pre[1].position
    /\ (/\ last.op = "update_state"
        /\ pre # <<>>
        /\ \/ pre[1].friend = 0
           \/ pre[1].enemy = 0)
       => /\ last.raises # "none"
          /\ agents[1].position = pre[1].position

\* r is the foot of the perpendicular from p onto the line through f and e:
\* r - f is parallel to e - f, and r - p is perpendicular to e - f
IsFoot(r, p, f, e) ==
    /\ Eq(Sub(Mul(Sub(r[1], f[1]), Sub(e[2], f[2])),
              Mul(Sub(r[2], f[2]), Sub(e[1], f[1]))), Zero)
    /\ Eq(Add(Mul(Sub(r[1], p[1]), Sub(e[1], f[1])),
              Mul(Sub(r[2], p[2]), Sub(e[2], f[2]))), Zero)

\* the first agent computed its destination in the branch that intersects:
\* ProtectiveAgent2 between friend and enemy, HidingAgent2 behind the friend
Intersecting ==
    LET a == agents[1]
        f == a.friend_position
        e == a.enemy_position
        p == a.position
    IN  /\ last.op = "_get_destination"
        /\ \/ /\ a.kind = "ProtectiveAgent2"
              /\ ~BehindFriend(f, e, p)
              /\ ~BehindEnemy(f, e, p)
           \/ /\ a.kind = "HidingAgent2"
              /\ BehindFriend(f, e, p)

\* C9: the point ProtectiveAgent2 (between) and HidingAgent2 (behind the
\* friend) compute for distinct snapshots F, E is the foot of the
\* perpendicular from P onto line FE: (F.x, P.y) when FE is vertical,
\* (P.x, F.y) when FE is horizontal, and the foot in the sloped case too.
C9_PerpendicularFoot ==
    LET a == agents[1]
        f == a.friend_position
        e == a.enemy_position
        p == a.position
    IN  (Intersecting /\ f # e)
        => /\ destination.raises = "none"
           /\ IsFoot(destination.value, p, f, e)
           /\ f[1] = e[1] => destination.value = <<f[1], p[2]>>
           /\ f[2] = e[2] => destination.value = <<p[1], f[2]>>

\* C10: with beyond friend iff d_ep^2 > d_fe^2 + d_fp^2 and, failing that,
\* beyond enemy iff d_fp^2 > d_fe^2 + d_ep^2, ProtectiveAgent2 returns F
\* beyond the friend, E beyond the enemy and the perpendicular foot
\* otherwise; HidingAgent2 returns the perpendicular foot beyond the friend
\* and F otherwise.
C10_ObtuseDestination ==
    LET a == agents[1]
        f == a.friend_position
        e == a.enemy_position
        p == a.position
        d_fe2 == Norm2(VSub(f, e))
        d_fp2 == Norm2(VSub(f, p))
        d_ep2 == Norm2(VSub(e, p))
        beyond_friend == Gt(d_ep2, Add(d_fe2, d_fp2))
        beyond_enemy == ~beyond_friend /\ Gt(d_fp2, Add(d_fe2, d_ep2))
        foot == f # e => IsFoot(destination.value, p, f, e)
    IN  /\ (last.op = "_get_destination" /\ a.kind = "ProtectiveAgent2")
           => /\ destination.raises = "none"
              /\ IF beyond_friend THEN destination.value = f
                 ELSE IF beyond_enemy THEN destination.value = e
                 ELSE foot
        /\ (last.op = "_get_destination" /\ a.kind = "HidingAgent2")
           => /\ destination.raises = "none"
              /\ IF beyond_friend THEN foot ELSE destination.value = f


\* a HidingAgent1 with distance > 0 and distinct snapshots whose
\* _get_destination() has been called
Hiding ==
    /\ last.op = "_get_destination"
    /\ agents[1].kind = "HidingAgent1"
    /\ Gt(agents[1].distance, Zero)
    /\ agents[1].friend_position # agents[1].enemy_position

\* the points f, e and q lie on one line
Collinear(f, e, q) ==
    Eq(Mul(Sub(q[1], f[1]), Sub(e[2], f[2])),
       Mul(Sub(q[2], f[2]), Sub(e[1], f[1])))

\* C11: for a HidingAgent1 with distance > 0 and snapshots F # E, the
\* destination is F + distance*u with u = (F - E)/|F - E|, replaced by
\* F - distance*u exactly when F + distance*u is closer to E than F is; it
\* lies on the line EF at distance `distance` from F and is not closer to E
\* than F is; for F = (0,0), E = (10,0), distance = 3 it is (-3,0).
C11_FixedOffset ==
    Hiding =>
        LET F == agents[1].friend_position
            E == agents[1].enemy_position
            d == agents[1].distance
            u == VDiv(VSub(F, E), Norm(VSub(F, E)))
            first == VAdd(F, VScale(d, u))
            second == VSub(F, VScale(d, u))
            dest == destination.value
        IN  /\ destination.raises = "none"
            /\ dest = IF Lt(Dist(E, first), Dist(F, E)) THEN second ELSE first
            /\ Collinear(F, E, dest)
            /\ Eq(Dist(dest, F), d)
            /\ Le(Dist(F, E), Dist(E, dest))
            /\ (F = <<Zero, Zero>> /\ E = <<R(10), Zero>> /\ d = R(3))
                  => dest = <<R(-3), Zero>>

\* the destination of the worked case has been computed, and so has one on
\* a slanted line
C11_Witness ==
    /\ Hiding
    /\ destination.raises = "none"
    /\ agents[1].distance = R(3)
    /\ agents[1].friend_position = <<Zero, Zero>>
    /\ agents[1].enemy_position = <<R(10), Zero>>
    /\ destination.value = <<R(-3), Zero>>

=============================================================================
